---- MODULE Spec2Model ----
(***************************************************************************)
(* A model of Model3D.py of pySlice: the Vector3 / Normal / Edge /        *)
(* Triangle value types, the triangle-plane intersection routines, and the *)
(* Model3D mesh (vertex and normal pools, triangle list, extents) with its *)
(* two slicing passes.                                                     *)
(*                                                                         *)
(* Numbers.  Coordinates are the integers of a small grid, taken as the    *)
(* floats 0.0, 1.0, 2.0, ...: on these values every sum, difference and    *)
(* product the code forms is exact in IEEE double arithmetic, so integer   *)
(* arithmetic is the code's arithmetic.  A quotient (the interpolation     *)
(* parameter n, the factor fac) is kept as an exact fraction <<num, den>>. *)
(* sqrt is monotone with sqrt(0) = 0 and sqrt(1) = 1, so a comparison of a *)
(* length with 0.0 or 1.0 is the comparison of its square.  The tolerances *)
(* 1e-7 and 1e-6 are kept as their reciprocals.                            *)
(*                                                                         *)
(* Objects.  A Python object is a record with an id field; two records     *)
(* with equal coordinates and different ids are two instances.  An id is   *)
(* <<call, slot>>: the call that constructed the object and its role in    *)
(* that call; Temp marks the result of an arithmetic operator.             *)
(*                                                                         *)
(* None is the empty set and a present optional value v is {v}.            *)
(***************************************************************************)
EXTENDS Integers, Sequences, FiniteSets, TLC

\* ---------------------------------------------------------------- bounds
\* Vertex coordinates offered to the Triangle constructor: x, y in 0..MaxXY,
\* z in 0..MaxZ.
MaxXY == 1
MaxZ == 2
\* Number of add_triangle calls made on one mesh.
MaxCalls == 2
\* Number of facets read from the STL file before slicing.
MaxFacets == 4

\* ------------------------------------------------------ program constants
\* DIFFERENCE_LIMIT = 1e-7, as its reciprocal.
DIFFERENCE_LIMIT_INV == 10000000
\* epsilon = 1e-6 of isect_line_plane_v3, as its reciprocal.
EPSILON_INV == 1000000
\* '%f' prints six decimals: a coordinate is keyed by its millionths.
F_DECIMALS_SCALE == 1000000

\* ------------------------------------------------------------- optionals
None == {}
Some(v) == {v}
Get(o) == CHOOSE v \in o : TRUE

Abs(a) == IF a < 0 THEN -a ELSE a

RECURSIVE Gcd(_, _)
Gcd(a, b) == IF b = 0 THEN a ELSE Gcd(b, a % b)

\* The exact value num/den (den # 0) in lowest terms with a positive
\* denominator: the float a true division returns, up to rounding.
Rat(num, den) ==
    LET g == Gcd(Abs(num), Abs(den))
        s == IF den < 0 THEN -1 ELSE 1
    IN  <<(s * num) \div g, (s * den) \div g>>

RatMul(a, b) == Rat(a[1] * b[1], a[2] * b[2])
RatAdd(a, b) == Rat(a[1] * b[2] + b[1] * a[2], a[2] * b[2])
RatOfInt(k) == <<k, 1>>
\* a <= b for fractions with positive denominators
RatLeq(a, b) == a[1] * b[2] <= b[1] * a[2]
RatLt(a, b) == a[1] * b[2] < b[1] * a[2]

\* ---------------------------------------------------------------- Vector3
Temp == <<0, "tmp">>

Vector3(id, x, y, z) == [id |-> id, x |-> x, y |-> y, z |-> z]

\* '%f' % c for a grid coordinate c: the decimal string with six decimals,
\* held as the integer its digits spell (1.0 -> "1.000000" -> 1000000).
FormatF(c) == c * F_DECIMALS_SCALE

\* Vector3.hash: md5 of '(%f, %f, %f)'.  md5 is taken as injective on these
\* strings, so the hash is the formatted triple.
Key(v) == <<FormatF(v.x), FormatF(v.y), FormatF(v.z)>>

\* Vector3.__sub__
Vector3Sub(a, b) == Vector3(Temp, a.x - b.x, a.y - b.y, a.z - b.z)

\* fabs(d) < DIFFERENCE_LIMIT
WithinLimit(d) == Abs(d) * DIFFERENCE_LIMIT_INV < 1

\* Vector3.__eq__ (other is never None here)
Vector3Eq(a, b) ==
    WithinLimit(a.x - b.x) /\ WithinLimit(a.y - b.y) /\ WithinLimit(a.z - b.z)

\* Vector3.length(), squared
Length2(v) == v.x * v.x + v.y * v.y + v.z * v.z

\* Vector3.cross
Cross(a, b) ==
    Vector3(Temp, a.y * b.z - a.z * b.y, a.z * b.x - a.x * b.z, a.x * b.y - a.y * b.x)

\* Normal.__init__ raises ValueError("Length of Vector is 0") iff l == 0.0
NormalRaises(dx, dy, dz) == dx * dx + dy * dy + dz * dz = 0

\* ------------------------------------------------------------------- Edge
\* Edge.contains(point) for the edge from p0 to p1:
\*   xp.length() == 0.0 and (0.0 <= d2.length() <= 1.0)
EdgeContains(p0, p1, point) ==
    LET d1 == Vector3Sub(p1, p0)
        d2 == Vector3Sub(point, p0)
        xp == Cross(d1, d2)
    IN  Length2(xp) = 0 /\ 0 <= Length2(d2) /\ Length2(d2) <= 1

\* --------------------------------------------------------------- Triangle
ErrCoincident == "Degenerate Facet; Coincident Points"
ErrColinear == "Degenerate Facet; Colinear Points"
ErrZeroLength == "Length of Vector is 0"
Ok == "ok"

Raise(msg) == [result |-> msg, tri |-> None]

\* Triangle.__init__(p1, p2, p3, norm).  norm is None or Some(a Normal);
\* nid is the identity the computed Normal gets when none is supplied.
TriangleInit(p1, p2, p3, norm, nid) ==
    IF Vector3Eq(p1, p2) \/ Vector3Eq(p1, p3)
    THEN Raise(ErrCoincident)
    ELSE IF EdgeContains(p1, p2, p3)
    THEN Raise(ErrColinear)
    ELSE IF norm # None
    THEN [result |-> Ok,
          tri |-> Some([vertices |-> <<p1, p2, p3>>, norm |-> Get(norm)])]
    ELSE LET d1 == Vector3Sub(p2, p1)
             d2 == Vector3Sub(p3, p2)
             xp == Cross(d1, d2)
         IN  IF NormalRaises(xp.x, xp.y, xp.z)
             THEN Raise(ErrZeroLength)
             ELSE [result |-> Ok,
                   tri |-> Some([vertices |-> <<p1, p2, p3>>,
                                 norm |-> Vector3(nid, xp.x, xp.y, xp.z)])]

\* Triangle.findInterpolatedPoint(A, B, targetz).  A and B are Vector3
\* records standing for the (x, y, z) tuples.  n = refz / V[2] raises
\* ZeroDivisionError when V[2] is 0; n is returned beside the coordinates
\* so that the properties can speak of it.
ZeroDivision == "ZeroDivisionError"

findInterpolatedPoint(A, B, targetz) ==
    LET V == Vector3Sub(B, A)
        refz == targetz - A.z
    IN  IF V.z = 0
        THEN [A |-> A, B |-> B, n |-> <<refz, 0>>, coords |-> ZeroDivision]
        ELSE LET n == Rat(refz, V.z)
             IN  [A |-> A, B |-> B, n |-> n,
                  coords |-> <<RatAdd(RatMul(n, RatOfInt(V.x)), RatOfInt(A.x)),
                               RatAdd(RatMul(n, RatOfInt(V.y)), RatOfInt(A.y))>>]

\* The edge test with >= and <= in place of > and <.
StraddlesLoose(a, b, targetz) ==
    (a.z >= targetz /\ b.z <= targetz) \/ (a.z <= targetz /\ b.z >= targetz)

\* The edge test of find_interpolated_points_at_z:
\*   (a.z > targetz and b.z < targetz) or (a.z < targetz and b.z > targetz)
Straddles(a, b, targetz) ==
    (a.z > targetz /\ b.z < targetz) \/ (a.z < targetz /\ b.z > targetz)

\* The calls of findInterpolatedPoint that find_interpolated_points_at_z
\* makes, in order: edges (v0,v1), (v0,v2), (v1,v2).
InterpolationCalls(t, targetz) ==
    LET v == t.vertices
        e(a, b) == IF Straddles(a, b, targetz)
                   THEN <<findInterpolatedPoint(a, b, targetz)>>
                   ELSE <<>>
    IN  e(v[1], v[2]) \o e(v[1], v[3]) \o e(v[2], v[3])

\* The vertex test as three independent ifs: every vertex at targetz.
VertexAtZEvery(t, targetz) ==
    LET v == t.vertices
        e(a) == IF a.z = targetz THEN <<<<RatOfInt(a.x), RatOfInt(a.y)>>>> ELSE <<>>
    IN  e(v[1]) \o e(v[2]) \o e(v[3])

\* The if / elif / elif chain on a vertex lying exactly at targetz: the
\* first such vertex only.
VertexAtZ(t, targetz) ==
    LET v == t.vertices
    IN  IF v[1].z = targetz THEN <<<<RatOfInt(v[1].x), RatOfInt(v[1].y)>>>>
        ELSE IF v[2].z = targetz THEN <<<<RatOfInt(v[2].x), RatOfInt(v[2].y)>>>>
        ELSE IF v[3].z = targetz THEN <<<<RatOfInt(v[3].x), RatOfInt(v[3].y)>>>>
        ELSE <<>>

\* Triangle.find_interpolated_points_at_z(targetz): the list pair.
find_interpolated_points_at_z(t, targetz) ==
    LET calls == InterpolationCalls(t, targetz)
    IN  [i \in 1..Len(calls) |-> calls[i].coords] \o VertexAtZ(t, targetz)

\* --------------------------------------------------- line-plane intersection
sub_v3v3(v0, v1) == <<v0[1] - v1[1], v0[2] - v1[2], v0[3] - v1[3]>>

dot_v3v3(v0, v1) == v0[1] * v1[1] + v0[2] * v1[2] + v0[3] * v1[3]

\* mul_v3_fl(v0, f) for an integer vector v0 and a fraction f
mul_v3_fl(v0, f) ==
    <<RatMul(RatOfInt(v0[1]), f), RatMul(RatOfInt(v0[2]), f), RatMul(RatOfInt(v0[3]), f)>>

\* add_v3v3(v0, v1) for an integer vector v0 and a vector of fractions v1
add_v3v3(v0, v1) ==
    <<RatAdd(RatOfInt(v0[1]), v1[1]), RatAdd(RatOfInt(v0[2]), v1[2]),
      RatAdd(RatOfInt(v0[3]), v1[3])>>

\* abs(dot) > epsilon
AboveEpsilon(dot) == Abs(dot) * EPSILON_INV > 1

\* isect_line_plane_v3(p0, p1, p_co, p_no): None, or Some(the point)
isect_line_plane_v3(p0, p1, p_co, p_no) ==
    LET u == sub_v3v3(p1, p0)
        dot == dot_v3v3(p_no, u)
    IN  IF AboveEpsilon(dot)
        THEN LET w == sub_v3v3(p0, p_co)
                 fac == Rat(-dot_v3v3(p_no, w), dot)
             IN  IF RatLeq(RatOfInt(0), fac) /\ RatLeq(fac, RatOfInt(1))
                 THEN Some(add_v3v3(p0, mul_v3_fl(u, fac)))
                 ELSE None
        ELSE None

\* A cutting plane: sympy's Plane, read through p1 and normal_vector.
Plane(p_co, p_no) == [p1 |-> p_co, normal_vector |-> p_no]

\* "if i: pair.append(i)": a tuple of three floats is truthy, None is not.
AppendIfTruthy(i) == IF i # None THEN <<Get(i)>> ELSE <<>>

\* Triangle.find_interpolated_points_at_plane(plane): the list pair.
find_interpolated_points_at_plane(t, plane) ==
    LET v1 == <<t.vertices[1].x, t.vertices[1].y, t.vertices[1].z>>
        v2 == <<t.vertices[2].x, t.vertices[2].y, t.vertices[2].z>>
        v3 == <<t.vertices[3].x, t.vertices[3].y, t.vertices[3].z>>
        i1 == isect_line_plane_v3(v1, v2, plane.p1, plane.normal_vector)
        i2 == isect_line_plane_v3(v1, v3, plane.p1, plane.normal_vector)
        i3 == isect_line_plane_v3(v2, v3, plane.p1, plane.normal_vector)
    IN  AppendIfTruthy(i1) \o AppendIfTruthy(i2) \o AppendIfTruthy(i3)

\* ------------------------------------------------------------------ state
VARIABLES
    triangles,   \* Model3D.triangles: the list of Triangle
    vertices,    \* Model3D.vertices: hash -> the pooled Vector3
    normals,     \* Model3D.normals: hash -> the pooled Normal
    xmin, xmax, ymin, ymax, zmin, zmax,   \* extents, None before the first triangle
    mx, my, mz,  \* the coordinate sums
    nextId,      \* the number of the next constructing call (object identity)
    tri,         \* a Triangle constructed outside any mesh (None: not yet)
    last         \* the last call: its name, arguments and outcome

vars == <<triangles, vertices, normals, xmin, xmax, ymin, ymax, zmin, zmax,
          mx, my, mz, nextId, tri, last>>

meshVars == <<triangles, vertices, normals, xmin, xmax, ymin, ymax, zmin, zmax,
              mx, my, mz>>

\* The Model3D object as one value.
Mesh ==
    [triangles |-> triangles, vertices |-> vertices, normals |-> normals,
     xmin |-> xmin, xmax |-> xmax, ymin |-> ymin, ymax |-> ymax,
     zmin |-> zmin, zmax |-> zmax, mx |-> mx, my |-> my, mz |-> mz]

SetMesh(m) ==
    /\ triangles' = m.triangles /\ vertices' = m.vertices /\ normals' = m.normals
    /\ xmin' = m.xmin /\ xmax' = m.xmax
    /\ ymin' = m.ymin /\ ymax' = m.ymax
    /\ zmin' = m.zmin /\ zmax' = m.zmax
    /\ mx' = m.mx /\ my' = m.my /\ mz' = m.mz

\* Model3D.__init__
Init ==
    /\ triangles = <<>>
    /\ vertices = <<>>
    /\ normals = <<>>
    /\ xmin = None /\ xmax = None
    /\ ymin = None /\ ymax = None
    /\ zmin = None /\ zmax = None
    /\ mx = 0 /\ my = 0 /\ mz = 0
    /\ nextId = 1
    /\ tri = None
    /\ last = [op |-> "init"]

\* ---------------------------------------------------------------- Model3D
\* The insertion without its "not in" test: the newest instance wins.
InsertVertexOverwrite(pool, v) ==
    [k \in DOMAIN pool \cup {Key(v)} |-> IF k = Key(v) THEN v ELSE pool[k]]

\* "if hash not in self.vertices: self.vertices[hash] = v"
InsertVertex(pool, v) ==
    IF Key(v) \in DOMAIN pool THEN pool ELSE pool @@ (Key(v) :> v)

\* The caller's own instance handed on, pooled or not.
CanonicalLoose(pool, v) == v

\* The vertex add_triangle hands to Triangle(...) in place of the caller's v:
\* self.vertices[v.hash]
Canonical(pool, v) == pool[Key(v)]

\* The loop body with the elif comparing against min.
WidenAxisSlip(lo, hi, c) ==
    IF c < lo THEN <<c, hi>> ELSE IF c > lo THEN <<lo, c>> ELSE <<lo, hi>>

\* One pass of the loop body of update_extents on one axis:
\*   if c < min: min = c   elif c > max: max = c
WidenAxis(lo, hi, c) ==
    IF c < lo THEN <<c, hi>> ELSE IF c > hi THEN <<lo, c>> ELSE <<lo, hi>>

\* The loop over the three vertices, on one axis.
WidenBy3(lo, hi, c1, c2, c3) ==
    LET a == WidenAxis(lo, hi, c1)
        b == WidenAxis(a[1], a[2], c2)
    IN  WidenAxis(b[1], b[2], c3)

\* Model3D.update_extents(triangle)
update_extents(m, t) ==
    LET v == t.vertices
        first == m.xmin = None
        x == WidenBy3(IF first THEN v[1].x ELSE Get(m.xmin),
                      IF first THEN v[1].x ELSE Get(m.xmax), v[1].x, v[2].x, v[3].x)
        y == WidenBy3(IF first THEN v[1].y ELSE Get(m.ymin),
                      IF first THEN v[1].y ELSE Get(m.ymax), v[1].y, v[2].y, v[3].y)
        z == WidenBy3(IF first THEN v[1].z ELSE Get(m.zmin),
                      IF first THEN v[1].z ELSE Get(m.zmax), v[1].z, v[2].z, v[3].z)
    IN  [m EXCEPT !.xmin = Some(x[1]), !.xmax = Some(x[2]),
                  !.ymin = Some(y[1]), !.ymax = Some(y[2]),
                  !.zmin = Some(z[1]), !.zmax = Some(z[2]),
                  !.mx = (IF first THEN 0 ELSE @) + (v[1].x + v[2].x + v[3].x),
                  !.my = (IF first THEN 0 ELSE @) + (v[1].y + v[2].y + v[3].y),
                  !.mz = (IF first THEN 0 ELSE @) + (v[1].z + v[2].z + v[3].z)]

\* Model3D.add_triangle(v1, v2, v3, norm): the outcome ("ok" or the message
\* of the ValueError that leaves the method) and the mesh afterwards.
add_triangle(m, v1, v2, v3, norm, nid) ==
    LET vs == InsertVertex(InsertVertex(InsertVertex(m.vertices, v1), v2), v3)
        r == TriangleInit(Canonical(vs, v1), Canonical(vs, v2), Canonical(vs, v3),
                          norm, nid)
    IN  IF r.result # Ok
        THEN [result |-> r.result, mesh |-> [m EXCEPT !.vertices = vs]]
        ELSE LET triangle == Get(r.tri)
                 nrm == IF norm # None THEN Get(norm) ELSE triangle.norm
                 normal_hash == Key(nrm)
                 known == normal_hash \in DOMAIN m.normals
                 ns == IF known THEN m.normals ELSE m.normals @@ (normal_hash :> nrm)
                 t == IF known THEN [triangle EXCEPT !.norm = m.normals[normal_hash]]
                      ELSE triangle
             IN  [result |-> Ok,
                  mesh |-> update_extents(
                      [m EXCEPT !.vertices = vs, !.normals = ns,
                                !.triangles = Append(@, t)], t)]

\* Model3D.extents()
extents == <<<<xmin, xmax>>, <<ymin, ymax>>, <<zmin, zmax>>>>

\* ------------------------------------------------------ building a mesh
\* Vertex coordinates and normals offered to add_triangle.
MeshCoords == {<<0, 0, 0>>, <<1, 0, 0>>, <<2, 0, 0>>, <<0, 1, 1>>}
NormalInputs == {None, Some(<<0, 0, 1>>)}

OptNormal(id, n) ==
    IF n = None THEN None ELSE Some(Vector3(id, Get(n)[1], Get(n)[2], Get(n)[3]))

\* A caller constructs three Vector3 and maybe a Normal, as process_bin and
\* process_text do, and calls add_triangle.
AddTriangle ==
    /\ nextId <= MaxCalls
    /\ \E c1 \in MeshCoords, c2 \in MeshCoords, c3 \in MeshCoords, n \in NormalInputs :
         LET v1 == Vector3(<<nextId, "v1">>, c1[1], c1[2], c1[3])
             v2 == Vector3(<<nextId, "v2">>, c2[1], c2[2], c2[3])
             v3 == Vector3(<<nextId, "v3">>, c3[1], c3[2], c3[3])
             norm == OptNormal(<<nextId, "norm">>, n)
         IN  \E r \in {add_triangle(Mesh, v1, v2, v3, norm, <<nextId, "xp">>)} :
             /\ SetMesh(r.mesh)
             /\ last' = [op |-> "add_triangle", v1 |-> v1, v2 |-> v2, v3 |-> v3,
                         norm |-> norm, result |-> r.result]
    /\ nextId' = nextId + 1
    /\ UNCHANGED tri

Next == AddTriangle

Spec == Init /\ [][Next]_vars

\* ------------------------------------------------------- slicing a mesh
RatNeg(a) == <<0 - a[1], a[2]>>
RatSub(a, b) == RatAdd(a, RatNeg(b))

\* A reference axis: sympy's Line3D through p with direction d.
Line3D(p, d) == [p |-> p, d |-> d]

\* axis.distance(point), squared: |(point - p) x d|^2 / |d|^2.  float() of
\* the distance is a one-to-one function of this square.
Distance2(axis, point) ==
    LET w == <<RatSub(point[1], RatOfInt(axis.p[1])),
               RatSub(point[2], RatOfInt(axis.p[2])),
               RatSub(point[3], RatOfInt(axis.p[3]))>>
        d == <<RatOfInt(axis.d[1]), RatOfInt(axis.d[2]), RatOfInt(axis.d[3])>>
        cx == RatSub(RatMul(w[2], d[3]), RatMul(w[3], d[2]))
        cy == RatSub(RatMul(w[3], d[1]), RatMul(w[1], d[3]))
        cz == RatSub(RatMul(w[1], d[2]), RatMul(w[2], d[1]))
        sq == RatAdd(RatAdd(RatMul(cx, cx), RatMul(cy, cy)), RatMul(cz, cz))
    IN  Rat(sq[1], sq[2] * dot_v3v3(axis.d, axis.d))

\* Model3D.convert_to_2d(x_axis, y_axis, point)
convert_to_2d(x_axis, y_axis, point) ==
    <<Distance2(x_axis, point), Distance2(y_axis, point)>>

\* "if len(points) == 2: output.append(...)" over the per-triangle results,
\* in order: the results that make a segment.
RECURSIVE KeepPairs(_, _)
KeepPairs(results, i) ==
    IF i > Len(results) THEN <<>>
    ELSE (IF Len(results[i]) = 2 THEN <<results[i]>> ELSE <<>>)
         \o KeepPairs(results, i + 1)

\* Model3D.slice_at_z(targetz)
slice_at_z(tris, targetz) ==
    LET kept == KeepPairs([i \in 1..Len(tris) |->
                             find_interpolated_points_at_z(tris[i], targetz)], 1)
    IN  [j \in 1..Len(kept) |-> <<kept[j][1], kept[j][2]>>]

\* int(length - length*.2), the size of the subsample
SampleSize(length) == (length * 10 - length * 2) \div 10

\* np.random.choice(tris, size): every array of size entries of tris, each
\* entry drawn independently from the whole of tris; as index arrays.
RandomChoices(length, size) == [1..size -> 1..length]

\* Model3D.slice_at_plane(plane, x_axis, y_axis), given the array drawn
slice_at_plane(tris, sample, plane, x_axis, y_axis) ==
    LET kept == KeepPairs([i \in 1..Len(sample) |->
                             find_interpolated_points_at_plane(tris[sample[i]], plane)], 1)
    IN  [j \in 1..Len(kept) |-> <<convert_to_2d(x_axis, y_axis, kept[j][1]),
                                  convert_to_2d(x_axis, y_axis, kept[j][2])>>]

\* The decoded facets of one STL file, in file order: three vertices and
\* the normal (None where Normal(...) raised and process_bin passed None).
StlFacets ==
    << <<<<0, 0, 0>>, <<2, 0, 0>>, <<0, 2, 2>>, None>>,
       <<<<0, 0, 0>>, <<0, 2, 0>>, <<2, 0, 0>>, Some(<<0, 0, 0 - 1>>)>>,
       <<<<0, 0, 0>>, <<0, 0, 2>>, <<0, 2, 0>>, None>>,
       <<<<2, 0, 0>>, <<0, 2, 0>>, <<0, 0, 2>>, Some(<<1, 1, 1>>)>>,
       <<<<0, 0, 2>>, <<2, 0, 0>>, <<0, 2, 2>>, None>>,
       <<<<0, 2, 0>>, <<0, 2, 2>>, <<2, 0, 0>>, None>> >>

SliceZs == 0..MaxZ
SlicePlanes == {Plane(<<0, 0, 1>>, <<0, 0, 1>>), Plane(<<0, 0, 1>>, <<1, 0, 1>>)}
XAxis == Line3D(<<0, 0, 0>>, <<1, 0, 0>>)
YAxis == Line3D(<<0, 0, 0>>, <<0, 1, 0>>)

\* One pass of the loop of process_bin: the next facet goes to add_triangle.
LoadFacet ==
    /\ nextId <= MaxFacets /\ nextId <= Len(StlFacets)
    /\ LET f == StlFacets[nextId]
           v1 == Vector3(<<nextId, "v1">>, f[1][1], f[1][2], f[1][3])
           v2 == Vector3(<<nextId, "v2">>, f[2][1], f[2][2], f[2][3])
           v3 == Vector3(<<nextId, "v3">>, f[3][1], f[3][2], f[3][3])
           norm == OptNormal(<<nextId, "norm">>, f[4])
       IN  \E r \in {add_triangle(Mesh, v1, v2, v3, norm, <<nextId, "xp">>)} :
             /\ SetMesh(r.mesh)
             /\ last' = [op |-> "add_triangle", v1 |-> v1, v2 |-> v2, v3 |-> v3,
                         norm |-> norm, result |-> r.result]
    /\ nextId' = nextId + 1
    /\ UNCHANGED tri

SliceAtZ ==
    /\ \E targetz \in SliceZs :
         last' = [op |-> "slice_at_z", args |-> <<targetz>>,
                  sample |-> [i \in 1..Len(triangles) |-> i],
                  output |-> slice_at_z(triangles, targetz)]
    /\ UNCHANGED <<meshVars, nextId, tri>>

SliceAtPlane ==
    /\ \E plane \in SlicePlanes :
       \E sample \in RandomChoices(Len(triangles), SampleSize(Len(triangles))) :
         last' = [op |-> "slice_at_plane", args |-> <<plane, XAxis, YAxis>>,
                  sample |-> sample,
                  output |-> slice_at_plane(triangles, sample, plane, XAxis, YAxis)]
    /\ UNCHANGED <<meshVars, nextId, tri>>

NextSlice == LoadFacet \/ SliceAtZ \/ SliceAtPlane

SpecSlice == Init /\ [][NextSlice]_vars

\* ------------------------------------------- the Triangle type on its own
\* Inputs of the stand-alone Triangle operations.
GridCoords == {<<x, y, z>> : x \in 0..MaxXY, y \in 0..MaxXY, z \in 0..MaxZ}
TargetZs == 0..(MaxZ + 1)
Planes == {Plane(c, n) : c \in {<<0, 0, 0>>, <<0, 0, 1>>},
                         n \in {<<0, 0, 1>>, <<1, 0, 1>>}}

\* Triangle(p1, p2, p3, norm) on fresh objects.
NewTriangle ==
    /\ tri = None /\ last.op = "init"
    /\ \E c1 \in GridCoords, c2 \in GridCoords, c3 \in GridCoords, n \in NormalInputs :
         LET p1 == Vector3(<<nextId, "v1">>, c1[1], c1[2], c1[3])
             p2 == Vector3(<<nextId, "v2">>, c2[1], c2[2], c2[3])
             p3 == Vector3(<<nextId, "v3">>, c3[1], c3[2], c3[3])
             norm == OptNormal(<<nextId, "norm">>, n)
         IN  \E r \in {TriangleInit(p1, p2, p3, norm, <<nextId, "xp">>)} :
             /\ tri' = r.tri
             /\ last' = [op |-> "Triangle", p1 |-> p1, p2 |-> p2, p3 |-> p3,
                         norm |-> norm, result |-> r.result]
    /\ nextId' = nextId + 1
    /\ UNCHANGED meshVars

\* tri.find_interpolated_points_at_z(targetz), once on the new triangle
IntersectAtZ ==
    /\ tri # None /\ last.op = "Triangle"
    /\ \E targetz \in TargetZs :
         last' = [op |-> "find_interpolated_points_at_z", targetz |-> targetz,
                  calls |-> InterpolationCalls(Get(tri), targetz),
                  pair |-> find_interpolated_points_at_z(Get(tri), targetz)]
    /\ UNCHANGED <<meshVars, nextId, tri>>

\* tri.find_interpolated_points_at_plane(plane), once on the new triangle
IntersectAtPlane ==
    /\ tri # None /\ last.op = "Triangle"
    /\ \E plane \in Planes :
         last' = [op |-> "find_interpolated_points_at_plane", plane |-> plane,
                  pair |-> find_interpolated_points_at_plane(Get(tri), plane)]
    /\ UNCHANGED <<meshVars, nextId, tri>>

NextTri == NewTriangle \/ IntersectAtZ \/ IntersectAtPlane

SpecTri == Init /\ [][NextTri]_vars

\* ============================================================ properties
IsAdd == last.op = "add_triangle"
IsNew == last.op = "Triangle"
IsAtZ == last.op = "find_interpolated_points_at_z"
IsAtPlane == last.op = "find_interpolated_points_at_plane"

\* ---- C1
PoolHolds(pool, o) == Key(o) \in DOMAIN pool /\ pool[Key(o)] = o

CanonicalInstances ==
    \A i \in 1..Len(triangles) :
        /\ \A j \in 1..3 : PoolHolds(vertices, triangles[i].vertices[j])
        /\ PoolHolds(normals, triangles[i].norm)

PoolKeepsFirst ==
    /\ \A k \in DOMAIN vertices : k \in DOMAIN vertices' /\ vertices'[k] = vertices[k]
    /\ \A k \in DOMAIN normals : k \in DOMAIN normals' /\ normals'[k] = normals[k]

\* C1: after any sequence of add_triangle calls, accepted or rejected, every
\* vertex of every triangle of the list is the very instance the vertex pool
\* holds under that vertex's key, every triangle's normal is the very
\* instance the normal pool holds under its key, and an entry of either pool
\* is never replaced (it stays the first instance inserted under the key).
C1_CanonicalPooledInstances == []CanonicalInstances /\ [][PoolKeepsFirst]_vars

\* C1 witness: a second triangle whose three vertices and normal are the
\* instances the first add_triangle call constructed.
C1_Witness ==
    /\ Len(triangles) = 2
    /\ \A j \in 1..3 : triangles[2].vertices[j].id[1] = 1
    /\ triangles[2].norm.id[1] = 1
    /\ nextId = 3

\* ---- C2
\* C2: a Triangle two of whose vertices are equal by Vector3.__eq__, for any
\* of the pairs (p1,p2), (p1,p3), (p2,p3), with or without a normal, is never
\* constructed: the constructor raises.
C2_EqualPairRejected ==
    (IsNew /\ (Vector3Eq(last.p1, last.p2) \/ Vector3Eq(last.p1, last.p3)
               \/ Vector3Eq(last.p2, last.p3)))
        => last.result # Ok

\* ---- C3
Collinear(p1, p2, p3) == Length2(Cross(Vector3Sub(p2, p1), Vector3Sub(p3, p1))) = 0

\* C3: three pairwise distinct collinear vertices, whatever their distances
\* and with or without a normal, never make a Triangle: the constructor
\* raises.
C3_CollinearRejected ==
    (IsNew /\ ~Vector3Eq(last.p1, last.p2) /\ ~Vector3Eq(last.p1, last.p3)
           /\ ~Vector3Eq(last.p2, last.p3)
           /\ Collinear(last.p1, last.p2, last.p3))
        => last.result # Ok

\* ---- C4
RejectedCall == nextId' = nextId + 1 /\ last'.op = "add_triangle" /\ last'.result # Ok

ExtentsAndSumsUnchanged ==
    UNCHANGED <<xmin, xmax, ymin, ymax, zmin, zmax, mx, my, mz>>

CallVertices(c) == {c.v1, c.v2, c.v3}

\* The first of the call's vertices v1, v2, v3 whose key is k.
FirstWithKey(c, k) ==
    IF Key(c.v1) = k THEN c.v1 ELSE IF Key(c.v2) = k THEN c.v2 ELSE c.v3

\* C4 as amended: a rejected add_triangle call leaves the triangle list, the
\* six extents, the three sums and the normal pool as they were; the vertex
\* pool keeps every entry it had and gains, for each key of the call's
\* vertices that was not pooled, the first of the call's vertices with it.
C4_RejectedKeepsAllButVertexPool ==
    [][RejectedCall =>
         /\ triangles' = triangles
         /\ normals' = normals
         /\ ExtentsAndSumsUnchanged
         /\ \A k \in DOMAIN vertices : k \in DOMAIN vertices' /\ vertices'[k] = vertices[k]
         /\ DOMAIN vertices' = DOMAIN vertices \cup {Key(v) : v \in CallVertices(last')}
         /\ \A k \in DOMAIN vertices' \ DOMAIN vertices :
                vertices'[k] = FirstWithKey(last', k)]_vars

\* C4 as claimed: a rejected add_triangle call leaves the whole mesh, the
\* vertex pool included, as it was.
C4_RejectedKeepsMesh == [][RejectedCall => UNCHANGED meshVars]_vars

\* C4 witness: a call rejected on a mesh that holds a triangle, with a vertex
\* of the rejected call left in the pool.
C4_Witness ==
    /\ IsAdd /\ last.result # Ok
    /\ Len(triangles) >= 1
    /\ \E k \in DOMAIN vertices : vertices[k].id[1] = nextId - 1

\* ---- C5
Coords(axis) ==
    {(IF axis = "x" THEN triangles[i].vertices[j].x
      ELSE IF axis = "y" THEN triangles[i].vertices[j].y
      ELSE triangles[i].vertices[j].z) : i \in 1..Len(triangles), j \in 1..3}

Least(S) == CHOOSE m \in S : \A c \in S : m <= c
Greatest(S) == CHOOSE m \in S : \A c \in S : m >= c

ExtentsExact ==
    IF triangles = <<>>
    THEN extents = <<<<None, None>>, <<None, None>>, <<None, None>>>>
    ELSE extents = <<<<Some(Least(Coords("x"))), Some(Greatest(Coords("x")))>>,
                     <<Some(Least(Coords("y"))), Some(Greatest(Coords("y")))>>,
                     <<Some(Least(Coords("z"))), Some(Greatest(Coords("z")))>>>>

OnlyWidens(lo, hi, lo2, hi2) ==
    lo # None => /\ lo2 # None /\ Get(lo2) <= Get(lo)
                 /\ hi2 # None /\ Get(hi2) >= Get(hi)

ExtentsOnlyWiden ==
    /\ OnlyWidens(xmin, xmax, xmin', xmax')
    /\ OnlyWidens(ymin, ymax, ymin', ymax')
    /\ OnlyWidens(zmin, zmax, zmin', zmax')

\* C5: the extents are None while the triangle list is empty; once it is not,
\* each axis's min and max are exactly the least and greatest of that
\* coordinate over the three vertices of every triangle of the list; and no
\* call raises a min or lowers a max.
C5_ExtentsExactAndWidening == []ExtentsExact /\ [][ExtentsOnlyWiden]_vars

\* C5 witness: two triangles in the list, the first vertex of the first
\* triangle (the seed) strictly inside the x range.
C5_Witness ==
    /\ Len(triangles) = 2
    /\ Get(xmin) < triangles[1].vertices[1].x
    /\ triangles[1].vertices[1].x < Get(xmax)

\* ---- C6
Count(S, P(_)) == Cardinality({i \in S : P(i)})

\* The plane through p_co with normal p_no meets the triangle t in a segment
\* of positive length: vertices strictly on both sides, or exactly two
\* vertices in the plane.
MeetsInSegment(t, p_co, p_no) ==
    LET side(j) == dot_v3v3(p_no, sub_v3v3(<<t.vertices[j].x, t.vertices[j].y,
                                             t.vertices[j].z>>, p_co))
        Neg(j) == side(j) < 0
        Pos(j) == side(j) > 0
        On(j) == side(j) = 0
    IN  \/ Count(1..3, Neg) >= 1 /\ Count(1..3, Pos) >= 1
        \/ Count(1..3, On) = 2

NonDegenerate(t) == ~Collinear(t.vertices[1], t.vertices[2], t.vertices[3])

\* C6: for a triangle of positive area and a plane that meets it in a segment
\* of positive length, the per-triangle intersection returns exactly two
\* points (z-constant plane: find_interpolated_points_at_z; general plane:
\* find_interpolated_points_at_plane).
C6_SegmentNeverDropped ==
    /\ (IsAtZ /\ NonDegenerate(Get(tri))
          /\ MeetsInSegment(Get(tri), <<0, 0, last.targetz>>, <<0, 0, 1>>))
         => Len(last.pair) = 2
    /\ (IsAtPlane /\ NonDegenerate(Get(tri))
          /\ MeetsInSegment(Get(tri), last.plane.p1, last.plane.normal_vector))
         => Len(last.pair) = 2

\* ---- C7
SameSliceAgain ==
    /\ last.op \in {"slice_at_z", "slice_at_plane"}
    /\ last'.op = last.op
    /\ last'.args = last.args
    /\ UNCHANGED meshVars

\* C7: a slice repeated with the same arguments on the unchanged mesh returns
\* the same list of segments, in the same order.
C7_SliceDeterministic == [][SameSliceAgain => last'.output = last.output]_vars

\* ---- C8
\* C8: one slice_at_plane call processes int(0.8 * N) pairwise distinct
\* triangles of the N in the mesh.
C8_SampleWithoutReplacement ==
    last.op = "slice_at_plane" =>
        /\ Len(last.sample) = SampleSize(Len(triangles))
        /\ \A i \in 1..Len(last.sample), j \in 1..Len(last.sample) :
               i # j => last.sample[i] # last.sample[j]

\* ---- C9
\* C9: find_interpolated_points_at_z returns at most two points.
C9_AtMostTwoPoints == IsAtZ => Len(last.pair) <= 2

\* C9 witness: a result of two points, one from a straddling edge and one
\* from the vertex lying at targetz.
C9_Witness == IsAtZ /\ Len(last.pair) = 2 /\ Len(last.calls) = 1

\* ---- C10
\* C10: every call of findInterpolatedPoint made by
\* find_interpolated_points_at_z has endpoints of different z, and its
\* interpolation parameter n lies strictly between 0 and 1.
C10_InterpolationInsideEdge ==
    IsAtZ => \A i \in 1..Len(last.calls) :
                 /\ last.calls[i].A.z # last.calls[i].B.z
                 /\ last.calls[i].n[2] # 0
                 /\ RatLt(RatOfInt(0), last.calls[i].n)
                 /\ RatLt(last.calls[i].n, RatOfInt(1))

\* C10 witness: a call that interpolated on two edges.
C10_Witness == IsAtZ /\ Len(last.calls) = 2

====
